---- MODULE Spec2Model ----
(***************************************************************************)
(* The Discord role-toggle webhook of src/lambda/role-toggle.py.           *)
(*                                                                         *)
(* An invocation of handler() is a process: it verifies the request's      *)
(* Ed25519 signature, classifies the interaction, resolves the role name   *)
(* in the lookup table, reads the member's roles and adds or removes the   *)
(* role.  Invocations interleave at their calls to the outside world (the  *)
(* secret store, the membership API); the code between two such calls is   *)
(* one step.  The outside world answers every call with any of the         *)
(* outcomes it can produce.                                                *)
(***************************************************************************)
EXTENDS Integers, Sequences, FiniteSets

VARIABLES
    membership,           \* Discord: the <<guild, user, role id>> triples held
    _discord_token,       \* line 26: the cached bot token, or None
    _discord_public_key,  \* line 27: the cached public key text, or None
    pc,                   \* per invocation: where handler() stands
    event,                \* per invocation: the Lambda event (headers, body)
    role_id,              \* per invocation: handler's local role_id
    has_role,             \* per invocation: user_has_role() of the snapshot read
    response,             \* per invocation: the value handler returned
    raised,               \* per invocation: the exception that left handler
    calls,                \* per invocation: the calls it has made, in order
    member,               \* per invocation: member["roles"] of the snapshot read
    discord_token,        \* per invocation: handler's local discord_token
    fetches,              \* observer: successful fetches of each secret
    overlap,              \* observer: two invocations were in flight at once
    history,              \* observer: the toggles completed one after another
    undisturbed           \* observer: no overlap and no failed call so far

vars == <<membership, _discord_token, _discord_public_key, pc, event, role_id,
          has_role, response, raised, calls, member, discord_token, fetches,
          overlap, history, undisturbed>>

(***************************************************************************)
(* Program constants.                                                      *)
(***************************************************************************)
INTERACTION_TYPE_PING == 1
INTERACTION_TYPE_APPLICATION_COMMAND == 4
INTERACTION_RESPONSE_EPHEMERAL == 64

(***************************************************************************)
(* Bounds and the finite world the invocations run in.                     *)
(***************************************************************************)
MaxHistory == 3

Procs == {"a", "b"}

\* Python's None, and a value that is not None.
None == <<>>
Some(v) == <<v>>

\* The role lookup table (roleName -> roleId).  "blank" has an item whose
\* roleId is the empty string; "ghost" has no item.
RoleNames == {"moderator", "member", "blank", "ghost"}
table == [n \in {"moderator", "member", "blank"} |->
            CASE n = "moderator" -> "R1"
              [] n = "member" -> "R2"
              [] n = "blank" -> ""]

\* The two secrets of the secret store.
SecretToken == "bot-token"
GoodKeyText == [hex |-> TRUE, bytes |-> 32, pk |-> "discord"]

\* Key texts a deployment can have configured: the platform's key, a text
\* that is not hexadecimal, a hexadecimal text of the wrong length.
KeyTexts == {GoodKeyText,
             [hex |-> FALSE, bytes |-> 0, pk |-> "none"],
             [hex |-> TRUE, bytes |-> 16, pk |-> "discord"]}

\* The memberships the requests of the model are about.
Triples == {<<"G1", "U1", "R1">>, <<"G2", "U2", "R1">>, <<"G1", "U1", "R2">>}

\* Who can sign: the platform (whose public key is configured) and anyone else.
Signers == {"discord", "mallory"}

(***************************************************************************)
(* Ed25519, as a detached signature: a signature names its signer and the  *)
(* exact message signed, and verifies only under that signer's public key  *)
(* and for that message.                                                   *)
(***************************************************************************)
Sign(signer, msg) == [signer |-> signer, msg |-> msg]

\* A header text: the hexadecimal of 64 signature bytes, or other text.
HexOf(sig) == [hex |-> TRUE, sig |-> sig]
NotHex == [hex |-> FALSE, sig |-> Sign("none", <<>>)]

\* The message with the timestamp left out.
SignedMessage_body_only(timestamp, body) == body

\* f"{timestamp}{body}": the two texts one after the other, no delimiter.
SignedMessage(timestamp, body) == timestamp \o body

\* VerifyKey(...).verify(message, signature): TRUE, or BadSignatureError.
Ed25519Verify(pk, msg, sig) == sig.signer = pk /\ sig.msg = msg

Headers(present, sig, ts) ==
    [present |-> present, signature |-> sig, timestamp |-> ts]

SIG_HEADER == "x-signature-ed25519"
TS_HEADER == "x-signature-timestamp"

\* lines 49-54: the try block of verify_discord_request with the public key
\* text get_discord_public_key returned: "ok", or the exception it raises.
verify_try(ev, keytext) ==
    IF SIG_HEADER \notin ev.headers.present THEN "KeyError"           \* 49
    ELSE IF TS_HEADER \notin ev.headers.present THEN "KeyError"       \* 50
    ELSE IF ~keytext.hex THEN "ValueError"               \* 53 (fromhex)
    ELSE IF keytext.bytes # 32 THEN "ValueError"         \* 53 (VerifyKey)
    ELSE IF ~ev.headers.signature.hex THEN "ValueError"  \* 54 (fromhex)
    ELSE IF Ed25519Verify(keytext.pk,
                          SignedMessage(ev.headers.timestamp, ev.body),
                          ev.headers.signature.sig)
    THEN "ok" ELSE "BadSignatureError"                   \* 54 (verify)

\* line 56: the exceptions verify_discord_request turns into False.
VerifyCaught == {"KeyError", "BadSignatureError", "ValueError"}

\* verify_discord_request returns True (line 55); it returns False when the
\* exception is caught (line 58), and otherwise raises it.
verify_discord_request(ev, keytext) == verify_try(ev, keytext) = "ok"
verify_raises(ev, keytext) ==
    verify_try(ev, keytext) \notin VerifyCaught \cup {"ok"}

(***************************************************************************)
(* Request bodies.  A body is a text: a sequence of characters, in which   *)
(* the text of a JSON object is written as one symbol naming the object.   *)
(* json_loads gives the value the text denotes.                            *)
(***************************************************************************)
\* A JSON object: the keys it has, and their values (a value whose key is
\* absent is never read).  "data.name", "data.options" and "member.user.id"
\* stand for the nested keys.
Object(keys, type, guild, user, name, options) ==
    [kind |-> "object", keys |-> keys, type |-> type, guild_id |-> guild,
     user_id |-> user, name |-> name, options |-> options, number |-> 0]

Number(n) ==
    [kind |-> "number", keys |-> {}, type |-> 0, guild_id |-> "",
     user_id |-> "", name |-> "", options |-> <<>>, number |-> n]

Invalid ==
    [kind |-> "invalid", keys |-> {}, type |-> 0, guild_id |-> "",
     user_id |-> "", name |-> "", options |-> <<>>, number |-> 0]

AllKeys == {"type", "guild_id", "member.user.id", "data.name", "data.options"}

Command(type, guild, user, name, options) ==
    Object(AllKeys, type, guild, user, name, options)

Documents ==
    [ping      |-> Object({"type"}, 1, "", "", "", <<>>),
     pingfull  |-> Command(1, "G1", "U1", "role", <<"moderator">>),
     notype    |-> Object(AllKeys \ {"type"}, 0, "G1", "U1", "role",
                          <<"moderator">>),
     type2     |-> Command(2, "G1", "U1", "role", <<"moderator">>),
     type9     |-> Command(9, "G1", "U1", "role", <<"moderator">>),
     other     |-> Command(4, "G1", "U1", "ping", <<>>),
     otherdm   |-> Object({"type", "data.name"}, 4, "", "", "ping", <<>>),
     nodata    |-> Object({"type", "guild_id", "member.user.id"}, 4, "G1",
                          "U1", "", <<>>),
     noopts    |-> Object(AllKeys \ {"data.options"}, 4, "G1", "U1", "role",
                          <<>>),
     emptyopts |-> Command(4, "G1", "U1", "role", <<>>),
     roledm    |-> Object({"type", "data.name", "data.options"}, 4, "", "",
                          "role", <<"ghost">>),
     ghost     |-> Command(4, "G1", "U1", "role", <<"ghost">>),
     blank     |-> Command(4, "G1", "U1", "role", <<"blank">>),
     mod11     |-> Command(4, "G1", "U1", "role", <<"moderator">>),
     mod22     |-> Command(4, "G2", "U2", "role", <<"moderator">>),
     mem11     |-> Command(4, "G1", "U1", "role", <<"member">>)]

Digits == {"1", "2", "3"}

json_loads(raw) ==
    IF Len(raw) = 1 /\ raw[1] \in DOMAIN Documents THEN Documents[raw[1]]
    ELSE IF raw # <<>> /\ \A i \in 1..Len(raw) : raw[i] \in Digits
    THEN Number(Len(raw))
    ELSE Invalid

\* body.get("type"): the value, or None.
body_get_type(doc) == IF "type" \in doc.keys THEN Some(doc.type) ELSE None

\* The texts a request body can be: an object, the numbers 3 and 23, and a
\* text that is no JSON.
Bodies == {<<d>> : d \in DOMAIN Documents} \cup {<<"3">>, <<"2", "3">>, <<"{">>}

Event(headers, body) == [headers |-> headers, body |-> body]

BothHeaders == {SIG_HEADER, TS_HEADER}

\* The requests of Spec: each body with the timestamp "1", signed by the
\* platform, signed by someone else, or sent without a signature header.
Events ==
    {Event(Headers(BothHeaders, HexOf(Sign(s, <<"1">> \o b)), <<"1">>), b) :
        s \in Signers, b \in Bodies}
    \cup {Event(Headers({TS_HEADER}, NotHex, <<"1">>), b) : b \in Bodies}
    \cup {Event(Headers(BothHeaders, NotHex, <<"1">>), <<"ping">>)}

NoEvent == Event(Headers({}, NotHex, <<>>), <<>>)

\* The requests of SpecVerify: a timestamp and a body, with a signature that
\* some signer made over some timestamp followed by some body.
MaxLen == 2
Chars == {"1", "2"}
Texts == UNION {[1..n -> Chars] : n \in 1..MaxLen}
Timestamps == UNION {[1..n -> {"1"}] : n \in 1..MaxLen}

VerifyEvents ==
    {Event(Headers(BothHeaders, HexOf(Sign(s, st \o sb)), t), b) :
        s \in Signers, st \in Timestamps, sb \in Texts,
        t \in Timestamps, b \in Texts}

(***************************************************************************)
(* Responses.                                                              *)
(***************************************************************************)
json_dumps(d) == [json |-> d]

NoResponse == [statusCode |-> 0, body |-> [text |-> ""]]

\* lines 109, 115, 222-225
Rejection == [statusCode |-> 401, body |-> [text |-> "Invalid request signature"]]
Pong == [statusCode |-> 200,
         body |-> json_dumps([type |-> INTERACTION_TYPE_PING])]
UnknownType == [statusCode |-> 400,
                body |-> json_dumps([error |-> "Unknown interaction type"])]

\* The ephemeral message every command outcome is returned as.
Ephemeral(content) ==
    [statusCode |-> 200,
     body |-> json_dumps([type |-> INTERACTION_TYPE_APPLICATION_COMMAND,
                          data |-> [content |-> content,
                                    flags |-> INTERACTION_RESPONSE_EPHEMERAL]])]

\* The message texts; an f-string is the sequence of its parts.
UnknownCommand == <<"Unknown command">>
RoleNotFound(role_name) == <<"Role '", role_name, "' not found">>
RoleGiven(role_name) == <<"You were given the '", role_name, "' role.">>
RoleRemoved(role_name) == <<"The '", role_name, "' role was removed from you.">>
FailedToAdd == <<"Failed to add role.">>
FailedToRemove == <<"Failed to remove role.">>
ErrorCommunicating == <<"Error communicating with Discord API">>

(***************************************************************************)
(* The record of a call to the outside world, or of the parse of the body. *)
(***************************************************************************)
Call(op, guild, user, role, result) ==
    [op |-> op, guild |-> guild, user |-> user, role |-> role,
     result |-> result]

Ops(p) == {calls[p][i].op : i \in 1..Len(calls[p])}
Count(p, op) == Cardinality({i \in 1..Len(calls[p]) : calls[p][i].op = op})

\* Ways an HTTP call of the membership API fails: raise_for_status raises
\* HTTPError on a 4xx or 5xx status, the call itself raises Timeout or
\* ConnectionError.  (requests follows redirects, so the status it hands
\* back is a 2xx or one of these.)
HttpFailures == {"403", "404", "500", "Timeout", "ConnectionError"}

(***************************************************************************)
(* How an invocation ends or goes on.                                      *)
(***************************************************************************)
Goto(p, label) ==
    /\ pc' = [pc EXCEPT ![p] = label]
    /\ response' = [response EXCEPT ![p] = NoResponse]
    /\ raised' = [raised EXCEPT ![p] = ""]

Return(p, resp) ==
    /\ pc' = [pc EXCEPT ![p] = "done"]
    /\ response' = [response EXCEPT ![p] = resp]
    /\ raised' = [raised EXCEPT ![p] = ""]

Raise(p, exception) ==
    /\ pc' = [pc EXCEPT ![p] = "done"]
    /\ response' = [response EXCEPT ![p] = NoResponse]
    /\ raised' = [raised EXCEPT ![p] = exception]

InFlight(p) == pc[p] \notin {"idle", "done"}

\* The observer: a step keeps the run undisturbed when no call in it failed.
Observe(ok, entries) ==
    /\ undisturbed' = (undisturbed /\ ok)
    /\ history' = IF ~undisturbed' THEN <<>>
                  ELSE IF Len(history) + Len(entries) > MaxHistory THEN history
                  ELSE history \o entries

\* The gate without its early return.
Checked_no_return(p, ok) == Goto(p, "dispatch")

\* lines 107-109: the signature gate.
Checked(p, ok) == IF ok THEN Goto(p, "dispatch") ELSE Return(p, Rejection)

\* lines 46-58, 107-109: verify_discord_request and what handler does of it.
Gate(p, ev, keytext) ==
    IF verify_raises(ev, keytext)
    THEN Raise(p, verify_try(ev, keytext))
    ELSE Checked(p, verify_discord_request(ev, keytext))

\* A cache that is never looked at.
cache_miss_always(cached) == TRUE

\* lines 32, 40: `if _discord_token is None`, `if _discord_public_key is None`.
cache_miss(cached) == cached = None

\* lines 104-109, 46-53, 38-40: a request arrives; handler runs up to the
\* verdict on the signature, or up to the secret store call for the key.
handler_start(p, ev) ==
    /\ ~InFlight(p)
    /\ event' = [event EXCEPT ![p] = ev]
    /\ role_id' = [role_id EXCEPT ![p] = None]
    /\ has_role' = [has_role EXCEPT ![p] = FALSE]
    /\ calls' = [calls EXCEPT ![p] = <<>>]
    /\ member' = [member EXCEPT ![p] = {}]
    /\ discord_token' = [discord_token EXCEPT ![p] = None]
    /\ IF ~(BothHeaders \subseteq ev.headers.present)
       THEN Gate(p, ev, GoodKeyText)       \* raises before the key is read
       ELSE IF cache_miss(_discord_public_key)
       THEN Goto(p, "fetchkey")
       ELSE Gate(p, ev, _discord_public_key[1])
    /\ Observe(\A q \in Procs \ {p} : ~InFlight(q), <<>>)
    /\ overlap' = (overlap \/ \E q \in Procs \ {p} : InFlight(q))
    /\ UNCHANGED <<membership, _discord_token, _discord_public_key, fetches>>

\* lines 41-43, 53-58, 107-109: the secret store answers, the key is cached
\* and the signature checked; or the call raises and nothing catches it.
get_discord_public_key(p) ==
    /\ pc[p] = "fetchkey"
    /\ \E outcome \in {"ok", "ClientError"} :
        /\ calls' = [calls EXCEPT ![p] =
                       Append(@, Call("secret:key", "", "", "", outcome))]
        /\ IF outcome = "ok"
           THEN /\ _discord_public_key' = Some(GoodKeyText)
                /\ fetches' = [fetches EXCEPT !.key = @ + 1]
                /\ Gate(p, event[p], GoodKeyText)
           ELSE /\ UNCHANGED <<_discord_public_key, fetches>>
                /\ Raise(p, outcome)
        /\ Observe(outcome = "ok", <<>>)
    /\ UNCHANGED <<membership, _discord_token, event, role_id, has_role,
                   member, discord_token, overlap>>

(***************************************************************************)
(* Dispatch: lines 111-157.                                                *)
(***************************************************************************)
Returns(resp) == [do |-> "return", exception |-> "", resp |-> resp, role_name |-> ""]
Raises(exception) ==
    [do |-> "raise", exception |-> exception, resp |-> NoResponse, role_name |-> ""]
Resolves(role_name) ==
    [do |-> "lookup", exception |-> "", resp |-> NoResponse, role_name |-> role_name]

\* lines 117-141: an application command, up to the role name.
command(doc) ==
    IF "data.name" \notin doc.keys THEN Raises("KeyError")            \* 118
    ELSE IF "guild_id" \notin doc.keys THEN Raises("KeyError")        \* 119
    ELSE IF "member.user.id" \notin doc.keys THEN Raises("KeyError")  \* 120
    ELSE IF doc.name # "role" THEN Returns(Ephemeral(UnknownCommand)) \* 126
    ELSE IF "data.options" \notin doc.keys THEN Raises("KeyError")    \* 141
    ELSE IF doc.options = <<>> THEN Raises("IndexError")              \* 141
    ELSE Resolves(doc.options[1])

\* The fields of a command read before the type is looked at.
classify_fields_first(doc) ==
    IF doc.kind = "invalid" THEN Raises("JSONDecodeError")
    ELSE IF doc.kind # "object" THEN Raises("AttributeError")
    ELSE IF {"data.name", "guild_id", "member.user.id"} \subseteq doc.keys
    THEN IF body_get_type(doc) = Some(INTERACTION_TYPE_PING)
         THEN Returns(Pong)
         ELSE IF body_get_type(doc) = Some(INTERACTION_TYPE_APPLICATION_COMMAND)
         THEN command(doc)
         ELSE Returns(UnknownType)
    ELSE Raises("KeyError")

\* lines 111-117, 221-225: what handler does with a verified body.
classify(doc) ==
    IF doc.kind = "invalid" THEN Raises("JSONDecodeError")            \* 111
    ELSE IF doc.kind # "object" THEN Raises("AttributeError")         \* 113
    ELSE IF body_get_type(doc) = Some(INTERACTION_TYPE_PING)
    THEN Returns(Pong)
    ELSE IF body_get_type(doc) = Some(INTERACTION_TYPE_APPLICATION_COMMAND)
    THEN command(doc)
    ELSE Returns(UnknownType)

\* A lookup that answers from the table although the call failed.
lookup_role_id_despite_failure(role_name, outcome) ==
    IF role_name \in DOMAIN table THEN Some(table[role_name]) ELSE None

\* lines 61-67: the item's roleId, or None when there is no item or the
\* lookup raised.
lookup_role_id(role_name, outcome) ==
    IF outcome = "ok" /\ role_name \in DOMAIN table
    THEN Some(table[role_name]) ELSE None

\* line 144: `not role_id`.
Falsy(rid) == rid = None \/ rid = Some("")

Doc(p) == json_loads(event[p].body)

\* lines 111-159: parse, classify, resolve the role; with a role id, go on
\* to get_discord_token (line 32 reads the cache).
dispatch(p) ==
    /\ pc[p] = "dispatch"
    /\ LET d == classify(Doc(p))
           parsed == Append(calls[p], Call("json.loads", "", "", "", "ok"))
       IN  CASE d.do = "return" ->
                  /\ calls' = [calls EXCEPT ![p] = parsed]
                  /\ Return(p, d.resp)
                  /\ UNCHANGED <<role_id, discord_token>>
                  /\ Observe(TRUE, <<>>)
             [] d.do = "raise" ->
                  /\ calls' = [calls EXCEPT ![p] = parsed]
                  /\ Raise(p, d.exception)
                  /\ UNCHANGED <<role_id, discord_token>>
                  /\ Observe(TRUE, <<>>)
             [] d.do = "lookup" ->
                  \E outcome \in {"ok", "ClientError"} :
                    LET rid == lookup_role_id(d.role_name, outcome)
                    IN  /\ calls' = [calls EXCEPT ![p] =
                                 Append(parsed, Call("table.get_item", "", "",
                                                     d.role_name, outcome))]
                        /\ role_id' = [role_id EXCEPT ![p] = rid]
                        /\ IF Falsy(rid)
                           THEN /\ Return(p, Ephemeral(RoleNotFound(d.role_name)))
                                /\ UNCHANGED discord_token
                           ELSE IF cache_miss(_discord_token)
                           THEN /\ Goto(p, "fetchtoken")
                                /\ UNCHANGED discord_token
                           ELSE /\ Goto(p, "get")
                                /\ discord_token' =
                                     [discord_token EXCEPT ![p] = _discord_token]
                        /\ Observe(outcome = "ok", <<>>)
    /\ UNCHANGED <<membership, _discord_token, _discord_public_key, event,
                   has_role, member, fetches, overlap>>

\* lines 33-35, 159: the secret store answers and the token is cached; or
\* the call raises, outside every try block of handler.
get_discord_token(p) ==
    /\ pc[p] = "fetchtoken"
    /\ \E outcome \in {"ok", "ClientError"} :
        /\ calls' = [calls EXCEPT ![p] =
                       Append(@, Call("secret:token", "", "", "", outcome))]
        /\ IF outcome = "ok"
           THEN /\ _discord_token' = Some(SecretToken)
                /\ discord_token' = [discord_token EXCEPT ![p] = _discord_token']
                /\ fetches' = [fetches EXCEPT !.token = @ + 1]
                /\ Goto(p, "get")
           ELSE /\ UNCHANGED <<_discord_token, discord_token, fetches>>
                /\ Raise(p, outcome)
        /\ Observe(outcome = "ok", <<>>)
    /\ UNCHANGED <<membership, _discord_public_key, event, role_id, has_role,
                   member, overlap>>

(***************************************************************************)
(* The toggle: lines 161-219.                                              *)
(***************************************************************************)
\* GET /guilds/{guild_id}/members/{user_id}: the "roles" of the member.
MemberRoles(guild, user) ==
    {t[3] : t \in {m \in membership : m[1] = guild /\ m[2] = user}}

\* The test of membership turned round.
user_has_role_negated(user_roles, rid) == rid \notin user_roles

\* lines 70-71
user_has_role(user_roles, rid) == rid \in user_roles

\* What the read can come to: the roles; a failure of the call; a 2xx body
\* without "roles"; a 2xx body that is no JSON.
ReadOutcomes == {"ok", "NoRoles", "NotJSON"} \cup HttpFailures

\* A failed read tried again.
read_failed_retried(p, outcome) == Goto(p, "get")

\* A failed read taken for an empty role list.
read_failed_as_absent(p, outcome) == Goto(p, "mutate")

\* lines 206-219: the except clause of the toggle.  It catches the failures
\* of the call; a body that is no JSON raises an exception that it catches
\* or not with the version of requests installed; KeyError it never catches.
read_failed(p, outcome) ==
    \/ /\ outcome \in HttpFailures \cup {"NotJSON"}
       /\ Return(p, Ephemeral(ErrorCommunicating))
    \/ /\ outcome = "NotJSON"
       /\ Raise(p, "JSONDecodeError")
    \/ /\ outcome = "NoRoles"
       /\ Raise(p, "KeyError")

\* lines 161-170: the membership read and the decision taken from it.
read_member(p) ==
    /\ pc[p] = "get"
    /\ \E outcome \in ReadOutcomes :
        /\ calls' = [calls EXCEPT ![p] =
                       Append(@, Call("GET", Doc(p).guild_id, Doc(p).user_id,
                                      "", outcome))]
        /\ IF outcome = "ok"
           THEN /\ member' = [member EXCEPT ![p] =
                      MemberRoles(Doc(p).guild_id, Doc(p).user_id)]
                /\ has_role' = [has_role EXCEPT ![p] =
                      user_has_role(member'[p], role_id[p][1])]
                /\ Goto(p, "mutate")
           ELSE /\ UNCHANGED <<has_role, member>>
                /\ read_failed(p, outcome)
        /\ Observe(outcome = "ok", <<>>)
    /\ UNCHANGED <<membership, _discord_token, _discord_public_key, event,
                   role_id, discord_token, fetches, overlap>>

\* A platform on which each call flips the membership.
Applied_as_flip(op, triple, outcome) ==
    LET after == IF triple \in membership THEN membership \ {triple}
                 ELSE membership \cup {triple}
    IN  IF outcome = "ok" THEN {after}
        ELSE IF outcome = "Timeout" THEN {membership, after}
        ELSE {membership}

\* What a PUT or DELETE of the role does to Discord's state: a call that
\* succeeded took effect, a call that timed out may have, another did not.
Applied(op, triple, outcome) ==
    LET after == IF op = "PUT" THEN membership \cup {triple}
                 ELSE membership \ {triple}
    IN  IF outcome = "ok" THEN {after}
        ELSE IF outcome = "Timeout" THEN {membership, after}
        ELSE {membership}

\* The message of success whatever the call returned.
toggle_message_of_success(op, success, role_name) ==
    IF op = "DELETE" THEN RoleRemoved(role_name) ELSE RoleGiven(role_name)

\* lines 174-178, 182-186: the message for the action and its success.
toggle_message(op, success, role_name) ==
    IF op = "DELETE"
    THEN IF success THEN RoleRemoved(role_name) ELSE FailedToRemove
    ELSE IF success THEN RoleGiven(role_name) ELSE FailedToAdd

\* The role always added.
direction_always_add(held) == "PUT"

\* lines 170-171, 180-181: the direction, from user_has_role of the snapshot.
direction(held) == IF held THEN "DELETE" ELSE "PUT"

\* A 403 not taken for a failure.
succeeded_but_for_403(outcome) == outcome \in {"ok", "403"}

\* lines 76-86, 91-101: add_role_to_user and remove_role_from_user return
\* True, or False on any RequestException.
succeeded(outcome) == outcome = "ok"

\* The role name where the role id belongs.
target_role_name(p) == <<Doc(p).guild_id, Doc(p).user_id, Doc(p).options[1]>>

\* lines 77, 92, 171-172, 181: the guild, user and role of the mutation URL.
target(p) == <<Doc(p).guild_id, Doc(p).user_id, role_id[p][1]>>

\* lines 170-204 with 74-101: the mutation and the response.
mutate(p) ==
    /\ pc[p] = "mutate"
    /\ \E outcome \in {"ok"} \cup HttpFailures :
        LET op == direction(has_role[p])
            doc == Doc(p)
            role_name == doc.options[1]
            triple == target(p)
            message == toggle_message(op, succeeded(outcome), role_name)
            made == Append(calls[p], Call(op, triple[1], triple[2],
                                          triple[3], outcome))
        IN  /\ calls' = [calls EXCEPT ![p] = made]
            /\ membership' \in Applied(op, triple, outcome)
            /\ Return(p, Ephemeral(message))
            /\ Observe(outcome = "ok",
                       <<[guild |-> doc.guild_id, user |-> doc.user_id,
                          role_name |-> role_name, content |-> message,
                          calls |-> made]>>)
    /\ UNCHANGED <<_discord_token, _discord_public_key, event, role_id,
                   has_role, member, discord_token, fetches, overlap>>

(***************************************************************************)
(* The specification.                                                      *)
(***************************************************************************)
Init ==
    /\ membership = {}
    /\ _discord_token = None
    /\ _discord_public_key = None
    /\ pc = [p \in Procs |-> "idle"]
    /\ event = [p \in Procs |-> NoEvent]
    /\ role_id = [p \in Procs |-> None]
    /\ has_role = [p \in Procs |-> FALSE]
    /\ response = [p \in Procs |-> NoResponse]
    /\ raised = [p \in Procs |-> ""]
    /\ calls = [p \in Procs |-> <<>>]
    /\ member = [p \in Procs |-> {}]
    /\ discord_token = [p \in Procs |-> None]
    /\ fetches = [token |-> 0, key |-> 0]
    /\ overlap = FALSE
    /\ history = <<>>
    /\ undisturbed = TRUE

\* Another execution environment, or a moderator, changes a membership:
\* all that an invocation ever sees of what runs beside it.
elsewhere ==
    /\ \E t \in Triples :
         membership' = IF t \in membership THEN membership \ {t}
                       ELSE membership \cup {t}
    /\ Observe(FALSE, <<>>)
    /\ UNCHANGED <<_discord_token, _discord_public_key, pc, event, role_id,
                   has_role, response, raised, calls, member, discord_token,
                   fetches, overlap>>

\* An execution environment serves one invocation at a time.
Serving == {"a"}

Next ==
    \/ elsewhere
    \/ \E p \in Serving :
        \/ \E ev \in Events : handler_start(p, ev)
        \/ get_discord_public_key(p)
        \/ dispatch(p)
        \/ get_discord_token(p)
        \/ read_member(p)
        \/ mutate(p)

Spec == Init /\ [][Next]_vars

(***************************************************************************)
(* Two invocations side by side, each serving one correctly signed toggle  *)
(* request after another for the same guild, user and role; they share the *)
(* cached secrets and Discord's state.                                     *)
(***************************************************************************)
ConcurrentEvents ==
    {Event(Headers(BothHeaders,
                   HexOf(Sign("discord", <<"1">> \o <<"mod11">>)), <<"1">>),
           <<"mod11">>)}

NextConcurrent ==
    \E p \in Procs :
        \/ \E ev \in ConcurrentEvents : handler_start(p, ev)
        \/ get_discord_public_key(p)
        \/ dispatch(p)
        \/ get_discord_token(p)
        \/ read_member(p)
        \/ mutate(p)

SpecConcurrent == Init /\ [][NextConcurrent]_vars

(***************************************************************************)
(* verify_discord_request on its own: an environment whose key is cached   *)
(* (the platform's, or a malformed one) receives one request.              *)
(***************************************************************************)
InitVerify ==
    /\ membership = {}
    /\ _discord_token = None
    /\ _discord_public_key \in {Some(k) : k \in KeyTexts}
    /\ pc = [p \in Procs |-> "idle"]
    /\ event = [p \in Procs |-> NoEvent]
    /\ role_id = [p \in Procs |-> None]
    /\ has_role = [p \in Procs |-> FALSE]
    /\ response = [p \in Procs |-> NoResponse]
    /\ raised = [p \in Procs |-> ""]
    /\ calls = [p \in Procs |-> <<>>]
    /\ member = [p \in Procs |-> {}]
    /\ discord_token = [p \in Procs |-> None]
    /\ fetches = [token |-> 0, key |-> 0]
    /\ overlap = FALSE
    /\ history = <<>>
    /\ undisturbed = TRUE

NextVerify ==
    \E ev \in VerifyEvents : pc["a"] = "idle" /\ handler_start("a", ev)

SpecVerify == InitVerify /\ [][NextVerify]_vars

(***************************************************************************)
(* What the claims speak of.                                               *)
(***************************************************************************)
Done(p) == pc[p] = "done"

\* The invocation got the public key (its fetch, if any, did not raise).
KeyObtained(p) ==
    /\ pc[p] \notin {"idle", "fetchkey"}
    /\ \A i \in 1..Len(calls[p]) :
         calls[p][i].op = "secret:key" => calls[p][i].result = "ok"

\* verify_discord_request returned False / True for the invocation's request.
VerifyFalse(p) ==
    KeyObtained(p) /\ ~verify_discord_request(event[p], _discord_public_key[1])
Verified(p) ==
    KeyObtained(p) /\ verify_discord_request(event[p], _discord_public_key[1])

CommandOps == {"table.get_item", "secret:token", "GET", "PUT", "DELETE"}

HasType(p, n) == Doc(p).kind = "object" /\ body_get_type(Doc(p)) = Some(n)

\* A command as handler classifies it, with guild and member.
RoleCommand(p) ==
    /\ HasType(p, INTERACTION_TYPE_APPLICATION_COMMAND)
    /\ {"data.name", "guild_id", "member.user.id"} \subseteq Doc(p).keys
    /\ Doc(p).name = "role"

IsEphemeral(resp) ==
    /\ resp.statusCode = 200
    /\ \E content \in {UnknownCommand, FailedToAdd, FailedToRemove,
                       ErrorCommunicating, <<"role name missing">>}
                      \cup {RoleNotFound(n) : n \in RoleNames}
                      \cup {RoleGiven(n) : n \in RoleNames}
                      \cup {RoleRemoved(n) : n \in RoleNames} :
         resp = Ephemeral(content)

\* C1: a request on which verify_discord_request returns false is answered
\* 401 with the fixed body, and before that handler has not parsed the body,
\* looked up a role, fetched the bot token, or read or changed a membership.
C1_UnverifiedRejected ==
    \A p \in Procs :
        VerifyFalse(p) =>
            /\ Done(p)
            /\ response[p] = Rejection
            /\ raised[p] = ""
            /\ Ops(p) \cap (CommandOps \cup {"json.loads"}) = {}

C1_Witness ==
    \E p \in Procs :
        /\ VerifyFalse(p)
        /\ BothHeaders \subseteq event[p].headers.present
        /\ event[p].headers.signature.sig.signer = "mallory"
        /\ event[p].body = <<"mod11">>
        /\ response[p] = Rejection

\* C2 as stated: whenever the signature was made with the configured key
\* over a timestamp or a body other than the one presented, the request is
\* rejected; pairs that only move characters between the end of the
\* timestamp and the start of the body included.
C2_DifferentPairRejected ==
    \A st \in Timestamps, sb \in Texts :
        LET ev == event["a"]
        IN  ( /\ pc["a"] # "idle"
              /\ ev.headers.signature = HexOf(Sign("discord", st \o sb))
              /\ <<st, sb>> # <<ev.headers.timestamp, ev.body>> )
            => (Done("a") /\ response["a"] = Rejection)

\* C2 as amended: whenever the signature was made over a text other than
\* the presented timestamp followed by the presented body, the request is
\* rejected.
C2_DifferentMessageRejected ==
    LET ev == event["a"]
    IN  ( /\ pc["a"] # "idle"
          /\ ev.headers.signature.sig.msg # ev.headers.timestamp \o ev.body )
        => (Done("a") /\ response["a"] = Rejection)

\* A signature of the platform over another text, under the platform's key.
C2_Witness ==
    LET ev == event["a"]
    IN  /\ Done("a")
        /\ _discord_public_key = Some(GoodKeyText)
        /\ ev.headers.signature = HexOf(Sign("discord", <<"1", "2">>))
        /\ ev.headers.timestamp = <<"1">>
        /\ ev.body = <<"1">>
        /\ response["a"] = Rejection

\* C3: a verified request of type 2 is an application command and is
\* answered 200; the 400 rejection goes only to types other than 1 and 2.
C3_Type2IsCommand ==
    \A p \in Procs :
        (Done(p) /\ Verified(p)) =>
            /\ HasType(p, 2) => response[p].statusCode = 200
            /\ response[p] = UnknownType => ~(HasType(p, 1) \/ HasType(p, 2))

FailedRead(p) ==
    \E i \in 1..Len(calls[p]) :
        calls[p][i].op = "GET" /\ calls[p][i].result \in HttpFailures

\* C4: a membership read that fails (connection error, timeout, error
\* status) is answered with a failure message, and no PUT and no DELETE is
\* issued.
C4_FailedReadAborts ==
    \A p \in Procs :
        FailedRead(p) =>
            /\ Done(p)
            /\ response[p] = Ephemeral(ErrorCommunicating)
            /\ raised[p] = ""
            /\ Count(p, "PUT") = 0
            /\ Count(p, "DELETE") = 0

C4_Witness ==
    \E p \in Procs :
        /\ Verified(p)
        /\ \E i \in 1..Len(calls[p]) :
             calls[p][i] = Call("GET", "G1", "U1", "", "Timeout")
        /\ Done(p)
        /\ response[p] = Ephemeral(ErrorCommunicating)

SameTarget(e, f) ==
    e.guild = f.guild /\ e.user = f.user /\ e.role_name = f.role_name

CountIn(cs, op) == Cardinality({i \in 1..Len(cs) : cs[i].op = op})

Added(e) ==
    /\ e.content = RoleGiven(e.role_name)
    /\ CountIn(e.calls, "PUT") = 1
    /\ CountIn(e.calls, "DELETE") = 0

Removed(e) ==
    /\ e.content = RoleRemoved(e.role_name)
    /\ CountIn(e.calls, "DELETE") = 1
    /\ CountIn(e.calls, "PUT") = 0

\* The first three toggles of an undisturbed run were for one target.
ThreeInARow ==
    /\ undisturbed
    /\ Len(history) >= 3
    /\ SameTarget(history[1], history[2])
    /\ SameTarget(history[2], history[3])

\* C5: from a user without the role, with every call succeeding and nothing
\* running beside them, three toggles one after another for the same guild,
\* user and role give Added (one PUT), Removed (one DELETE), Added.
C5_SequentialAlternation ==
    ThreeInARow =>
        Added(history[1]) /\ Removed(history[2]) /\ Added(history[3])

C5_Witness ==
    /\ ThreeInARow
    /\ history[1].role_name = "moderator"
    /\ history[3].content = RoleGiven("moderator")
    /\ <<"G1", "U1", "R1">> \in membership

\* C6: a verified role command without an option value (options missing or
\* empty) is answered 200 with an ephemeral message, and no membership is
\* changed.
C6_MissingOptionAnswered ==
    \A p \in Procs :
        ( /\ Done(p)
          /\ Verified(p)
          /\ RoleCommand(p)
          /\ ("data.options" \notin Doc(p).keys \/ Doc(p).options = <<>>) )
        => /\ raised[p] = ""
           /\ IsEphemeral(response[p])
           /\ Count(p, "PUT") = 0
           /\ Count(p, "DELETE") = 0

\* One of the invocation's calls to an outside service failed.
ExternalFailure(p) ==
    \E i \in 1..Len(calls[p]) : calls[p][i].result # "ok"

\* C7: a verified request ends with one response, 200 or 400, whatever the
\* outcome of its calls to the outside; no failure of an outside service
\* leaves handler as an exception.
C7_FailuresAnswered ==
    \A p \in Procs :
        (Done(p) /\ Verified(p) /\ ExternalFailure(p)) =>
            /\ raised[p] = ""
            /\ response[p].statusCode \in {200, 400}

\* C8: a verified application command whose name is not "role" is answered
\* 200 "Unknown command", with no lookup, token fetch, read or mutation.
C8_UnknownCommandAnswered ==
    \A p \in Procs :
        ( /\ Done(p)
          /\ Verified(p)
          /\ HasType(p, INTERACTION_TYPE_APPLICATION_COMMAND)
          /\ "data.name" \in Doc(p).keys
          /\ Doc(p).name # "role" )
        => /\ response[p] = Ephemeral(UnknownCommand)
           /\ Ops(p) \cap CommandOps = {}

\* C9: a verified role command whose role name has no item in the lookup
\* table is answered 200 "Role '<name>' not found", with no membership read
\* and no mutation.
C9_AbsentRoleAnswered ==
    \A p \in Procs :
        ( /\ Done(p)
          /\ Verified(p)
          /\ HasType(p, INTERACTION_TYPE_APPLICATION_COMMAND)
          /\ {"data.name", "data.options"} \subseteq Doc(p).keys
          /\ Doc(p).name = "role"
          /\ Doc(p).options # <<>>
          /\ Doc(p).options[1] \notin DOMAIN table )
        => /\ response[p] = Ephemeral(RoleNotFound(Doc(p).options[1]))
           /\ Ops(p) \cap {"GET", "PUT", "DELETE"} = {}

\* C10: a verified Ping is answered 200 with the Ping type whatever its
\* other fields are, or whether it has them, with no lookup, token fetch or
\* membership call.
C10_PingAnswered ==
    \A p \in Procs :
        (Verified(p) /\ HasType(p, INTERACTION_TYPE_PING) /\ Done(p)) =>
            /\ response[p] = Pong
            /\ raised[p] = ""
            /\ Ops(p) \cap CommandOps = {}

C10_Witness ==
    \E p \in Procs :
        /\ Verified(p)
        /\ event[p].body = <<"ping">>
        /\ Doc(p).keys = {"type"}
        /\ response[p] = Pong

LastCall(p) == calls[p][Len(calls[p])]

\* The invocation ended on a PUT or DELETE that failed.
FailedMutation(p) ==
    /\ Done(p)
    /\ calls[p] # <<>>
    /\ LastCall(p).op \in {"PUT", "DELETE"}
    /\ LastCall(p).result # "ok"

\* C11: two mutations in the same direction that both fail, one with 403
\* and one with another error status, a timeout or a connection error, are
\* answered with exactly the same response.
C11_FailuresAlike ==
    \A p \in Procs, q \in Procs :
        ( /\ FailedMutation(p)
          /\ FailedMutation(q)
          /\ LastCall(p).op = LastCall(q).op )
        => response[p] = response[q]

C11_Witness ==
    /\ FailedMutation("a")
    /\ FailedMutation("b")
    /\ LastCall("a").op = "PUT"
    /\ LastCall("b").op = "PUT"
    /\ LastCall("a").result = "403"
    /\ LastCall("b").result = "Timeout"
    /\ response["a"] = Ephemeral(FailedToAdd)

\* A signature header or the timestamp header is absent, or the signature
\* is not hexadecimal.
MalformedRequest(ev) ==
    \/ SIG_HEADER \notin ev.headers.present
    \/ TS_HEADER \notin ev.headers.present
    \/ ~ev.headers.signature.hex

\* C12: once verify_discord_request has finished on a request that lacks a
\* signature header or the timestamp header, or whose signature is not
\* hexadecimal, it has returned false (the request is rejected with 401)
\* and nothing was raised.
C12_MalformedReturnsFalse ==
    \A p \in Procs :
        (pc[p] \notin {"idle", "fetchkey"} /\ MalformedRequest(event[p]))
        => (Done(p) /\ response[p] = Rejection /\ raised[p] = "")

\* C13: within one request the direction is decided from the one snapshot
\* read: a DELETE is issued only if the role id is in the snapshot, a PUT
\* only if it is not, and never both.
C13_DirectionFromSnapshot ==
    \A p \in Procs :
        /\ Count(p, "PUT") + Count(p, "DELETE") <= 1
        /\ Count(p, "DELETE") = 1 =>
              (Count(p, "GET") = 1 /\ role_id[p][1] \in member[p])
        /\ Count(p, "PUT") = 1 =>
              (Count(p, "GET") = 1 /\ role_id[p][1] \notin member[p])

\* A DELETE decided on a snapshot that held the role and sent after the
\* role had been taken away elsewhere.
C13_Witness ==
    /\ Done("a")
    /\ role_id["a"] = Some("R1")
    /\ "R1" \in member["a"]
    /\ Count("a", "DELETE") = 1
    /\ LastCall("a").result = "403"
    /\ target("a") \notin membership

HttpOps == {"GET", "PUT", "DELETE"}

\* C14: a request makes at most one membership read and at most one
\* mutation, and a call to the platform that failed is the last call the
\* request makes: nothing is tried again.
C14_NoRetry ==
    \A p \in Procs :
        /\ Count(p, "GET") <= 1
        /\ Count(p, "PUT") + Count(p, "DELETE") <= 1
        /\ \A i \in 1..Len(calls[p]) :
              (calls[p][i].op \in HttpOps /\ calls[p][i].result # "ok")
              => i = Len(calls[p])

\* A request that ended after one read and one failed PUT.
C14_Witness ==
    /\ Done("a")
    /\ Count("a", "GET") = 1
    /\ Count("a", "PUT") = 1
    /\ LastCall("a").op = "PUT"
    /\ LastCall("a").result = "500"
    /\ response["a"] = Ephemeral(FailedToAdd)

\* The invocation made this call to the platform and it succeeded.
Succeeded(p, op) ==
    \E i \in 1..Len(calls[p]) : calls[p][i].op = op /\ calls[p][i].result = "ok"

\* C15: "You were given the role" is answered only by a request that made a
\* PUT which succeeded, "The role was removed from you." only by one that
\* made a DELETE which succeeded; a request whose mutation failed answers
\* with neither.
C15_SuccessMessageTruthful ==
    \A p \in Procs, n \in RoleNames :
        /\ response[p] = Ephemeral(RoleGiven(n)) => Succeeded(p, "PUT")
        /\ response[p] = Ephemeral(RoleRemoved(n)) => Succeeded(p, "DELETE")
        /\ FailedMutation(p) =>
              /\ response[p] # Ephemeral(RoleGiven(n))
              /\ response[p] # Ephemeral(RoleRemoved(n))

\* A removal that succeeded and is reported.
C15_Witness ==
    /\ Done("a")
    /\ Succeeded("a", "DELETE")
    /\ response["a"] = Ephemeral(RoleRemoved("member"))
    /\ <<"G1", "U1", "R2">> \notin membership

\* Both invocations have finished requests whose reads returned the same
\* role set.
SameSnapshot ==
    /\ Done("a") /\ Done("b")
    /\ Succeeded("a", "GET") /\ Succeeded("b", "GET")
    /\ target("a") = target("b")
    /\ member["a"] = member["b"]

\* C16: two toggle requests for the same guild, user and role that read
\* the same snapshot decide the same direction; when both mutations
\* succeed both report the same outcome, and the membership is the one a
\* single toggle of the snapshot produces: present after two PUTs, absent
\* after two DELETEs.
C16_SameSnapshotSameOutcome ==
    SameSnapshot =>
        /\ LastCall("a").op \in {"PUT", "DELETE"}
        /\ LastCall("a").op = LastCall("b").op
        /\ (LastCall("a").result = "ok" /\ LastCall("b").result = "ok") =>
              /\ response["a"] = response["b"]
              /\ target("a") \in membership <=> target("a")[3] \notin member["a"]

\* The interleaving: both requests are the first of their invocations to
\* get past the token (each fetched it, so each had passed the cache test
\* before the other stored it), both read the empty role set before either
\* PUT, both PUTs succeeded and both answer that the role was given.
C16_Witness ==
    /\ SameSnapshot
    /\ Succeeded("a", "secret:token") /\ Succeeded("b", "secret:token")
    /\ member["a"] = {}
    /\ Succeeded("a", "PUT") /\ Succeeded("b", "PUT")
    /\ response["a"] = Ephemeral(RoleGiven("moderator"))
    /\ response["b"] = Ephemeral(RoleGiven("moderator"))
    /\ target("a") \in membership

\* The lookup of the invocation's request failed in the store.
LookupFailed(p) ==
    \E i \in 1..Len(calls[p]) :
        calls[p][i].op = "table.get_item" /\ calls[p][i].result = "ClientError"

\* C17: a request whose role lookup failed in the store is answered as a
\* request for a role that has no item, 200 ephemeral "Role '<name>' not
\* found", and makes no membership read and no mutation.
C17_LookupFailureAsAbsent ==
    \A p \in Procs :
        LookupFailed(p) =>
            /\ Done(p)
            /\ raised[p] = ""
            /\ response[p] = Ephemeral(RoleNotFound(Doc(p).options[1]))
            /\ Ops(p) \cap HttpOps = {}

\* The lookup of a role that has an item fails.
C17_Witness ==
    /\ LookupFailed("a")
    /\ Doc("a").options = <<"moderator">>
    /\ response["a"] = Ephemeral(RoleNotFound("moderator"))

\* No request was ever started while another was in flight: the invocations
\* were handled one after another.
Sequential == ~overlap

\* What holds of the caches in every state: handled sequentially, a secret
\* is about to be fetched only while its cache is empty and is fetched with
\* success at most once; in any case it is fetched with success at most once
\* by each invocation that found the cache empty, the cache holds the
\* secret once a fetch succeeded, and every request past line 159 holds the
\* same token.
CachesKept ==
    /\ Sequential =>
          /\ fetches.token <= 1 /\ fetches.key <= 1
          /\ \A p \in Procs :
                /\ pc[p] = "fetchtoken" => _discord_token = None
                /\ pc[p] = "fetchkey" => _discord_public_key = None
    /\ fetches.token <= Cardinality(Procs)
    /\ fetches.key <= Cardinality(Procs)
    /\ fetches.token >= 1 => _discord_token = Some(SecretToken)
    /\ fetches.key >= 1 => _discord_public_key = Some(GoodKeyText)
    /\ \A p \in Procs, q \in Procs :
          (discord_token[p] # None /\ discord_token[q] # None)
          => (discord_token[p] = discord_token[q]
              /\ discord_token[p] = _discord_token)

\* A cache that has been filled keeps its value.
CachesStable ==
    /\ _discord_token # None => _discord_token' = _discord_token
    /\ _discord_public_key # None => _discord_public_key' = _discord_public_key

\* C18: handled sequentially, each secret is fetched only on first use and
\* never again once a fetch succeeded; a cached value never changes; two
\* concurrent first uses may both fetch, and both obtain the same value.
C18_CredentialCaching == [](CachesKept) /\ [][CachesStable]_vars

\* Two concurrent first uses: the store was hit twice for the token and
\* both requests hold the same token.
C18_Witness ==
    /\ fetches.token = 2
    /\ Succeeded("a", "secret:token") /\ Succeeded("b", "secret:token")
    /\ discord_token["a"] = Some(SecretToken)
    /\ discord_token["b"] = Some(SecretToken)

\* C19: every membership read and every PUT or DELETE of a request names
\* the guild_id and the member.user.id of that request, and a PUT or
\* DELETE names the role id that the table holds for the requested role
\* name.
C19_TargetBinding ==
    \A p \in Procs :
        \A i \in 1..Len(calls[p]) :
            LET c == calls[p][i]
            IN  /\ c.op \in HttpOps =>
                      /\ c.guild = Doc(p).guild_id
                      /\ c.user = Doc(p).user_id
                /\ c.op \in {"PUT", "DELETE"} =>
                      /\ Doc(p).options[1] \in DOMAIN table
                      /\ c.role = table[Doc(p).options[1]]

\* A toggle of "moderator" for user U2 in guild G2 reads and mutates U2 in
\* G2 with the role id R1, while the role is held by nobody else.
C19_Witness ==
    /\ Done("a")
    /\ Len(calls["a"]) >= 2
    /\ calls["a"][Len(calls["a"]) - 1] = Call("GET", "G2", "U2", "", "ok")
    /\ LastCall("a") = Call("PUT", "G2", "U2", "R1", "ok")
    /\ Doc("a").guild_id = "G2"
    /\ Doc("a").user_id = "U2"
    /\ Doc("a").options = <<"moderator">>
    /\ membership = {<<"G2", "U2", "R1">>}

====
